---- MODULE Spec2Model ----
(***************************************************************************)
(* Roulette: the wager ledger and payout resolver (game.ts), the pocket    *)
(* table (types.ts), the betting board (board.ts) and the session          *)
(* controller (main.ts) with the wheel's spin promise (wheel.ts).          *)
(*                                                                         *)
(* The specifications share the variables:                                 *)
(*   Spec        the application: the handlers main.ts registers, fed by   *)
(*               the placements board.ts can emit, the animation frames of *)
(*               the wheel and the dwell timers (SpecFair: frames and      *)
(*               timers are delivered; SpecAllIn: from an all-in stake     *)
(*               after a new game);                                        *)
(*   SpecApi     the game module called directly, as game.test.ts does:    *)
(*               any exported function, in any phase, with any placement;  *)
(*   SpecSettle  one ledger settled once on every pocket;                  *)
(*   SpecWheel   the wheel alone, with its angles (SpecWheelFair: frames   *)
(*               are delivered);                                           *)
(*   SpecHistory, SpecStats  the history and statistics managers alone.    *)
(***************************************************************************)
EXTENDS Integers, Sequences, FiniteSets, TLC

VARIABLES
    state,      \* main.ts `let state`: the GameState record
    ui,         \* the disabled flags and the overlay that updateUI sets
    wheel,      \* wheel.ts: spinning, targetPocket, rafId, frames drawn
    pending,    \* the spin handler suspended at `await wheel.spin(result)`
    timers,     \* number of dwell timeouts scheduled and not yet fired
    saved,      \* the persisted balance (saveBalance / clearSavedBalance)
    steps,      \* spins started (Spec), direct calls made (SpecApi): bounds the exploration
    records,    \* history.ts `entries` and stats.ts `stats`
    last        \* the call into the game module made by the last step, if any:
                \* arguments, state before and after, value returned

vars == <<state, ui, wheel, pending, timers, saved, steps, records, last>>

----------------------------------------------------------------------------
(* types.ts: the double zero; and the nulls of the records *)

DOUBLE_ZERO == -1
\* `lastResult: number | null`, `targetPocket: number | null`: the null.
NoResult == -2
\* No balance in storage.
NoSaved == -3

----------------------------------------------------------------------------
(* Bounds of the exploration *)

\* A placement is explored only while the ledger total stays within this stake.
MaxWager == 15
\* Number of spins explored (Spec).
MaxRounds == 2
\* Number of direct calls and field writes explored (SpecApi).
MaxCalls == 4
\* An animation resolves after at most this many frames.
MaxFrames == 2
\* Math.random() is explored on the values k / RandomScale, k in 0..RandomScale-1.
RandomScale == 74
\* Number of calls of wheel.spin explored (SpecWheel).
MaxSpins == 3
\* Number of calls of addEntry explored (SpecHistory): past the cap of 20.
MaxAdds == 22
\* Number of calls of recordRound explored (SpecStats).
MaxRecorded == 5

\* Balances found in storage when the page loads (loadBalance).
SavedBalances == {5, 10}
\* Balances the direct calls start from (createGameState(b)).
ApiBalances == {5, 1000}
\* Outcomes the direct calls settle: the double zero, the zero, and pockets
\* on and off the targets of ApiBets, red and black.
ApiResults == {DOUBLE_ZERO, 0, 7, 8, 10, 18}
\* Pockets the wheel is explored to land on: the green zero (every bet of
\* BoardBets loses) and 7 (every bet of BoardBets wins).
SpinOutcomes == {0, 7}

----------------------------------------------------------------------------
(* types.ts *)

BetTypes == {"straight", "split", "street", "corner", "sixline", "column",
             "dozen", "red", "black", "odd", "even", "low", "high"}

\* The pockets of the American wheel, the double zero among them (the
\* order around the wheel plays no part here).
WHEEL_SEQUENCE_US == {DOUBLE_ZERO} \cup (0..36)

RED_NUMBERS == {1, 3, 5, 7, 9, 12, 14, 16, 18, 19, 21, 23, 25, 27, 30, 32, 34, 36}

\* getPocketColor testing the zero only, not the double zero.
getPocketColor_ZeroOnly(n) ==
    IF n = 0 THEN "green"
    ELSE IF n \in RED_NUMBERS THEN "red" ELSE "black"

getPocketColor(n) ==
    IF n = 0 \/ n = DOUBLE_ZERO THEN "green"
    ELSE IF n \in RED_NUMBERS THEN "red" ELSE "black"

CHIP_VALUES == {1, 5, 25, 100}
\* The chips explored: the default 5 and 25, which the small balances refuse.
ChipsClicked == {5, 25}

PAYOUT_MAP ==
    [t \in BetTypes |->
        CASE t = "straight" -> 35
          [] t = "split"    -> 17
          [] t = "street"   -> 11
          [] t = "corner"   -> 8
          [] t = "sixline"  -> 5
          [] t = "column"   -> 2
          [] t = "dozen"    -> 2
          [] OTHER          -> 1]

Phases == {"betting", "spinning", "result"}

----------------------------------------------------------------------------
(* board.ts: the placements the board's cells and zones emit.  Every zone  *)
(* sorts its numbers ascending, so a target set has one array.             *)

ROW2 == <<1, 4, 7, 10, 13, 16, 19, 22, 25, 28, 31, 34>>

\* The cells explored: straight 7 and red.
BoardBets ==
    { [type |-> "straight", numbers |-> <<7>>],
      [type |-> "red",      numbers |-> <<>>] }

\* Direct calls: also the same pockets in another order, and other categories.
ApiBets ==
    BoardBets \cup
    { [type |-> "split",   numbers |-> <<7, 8>>],
      [type |-> "split",   numbers |-> <<8, 7>>],
      [type |-> "corner",  numbers |-> <<7, 8, 10, 11>>],
      [type |-> "column",  numbers |-> ROW2],
      [type |-> "dozen",   numbers |-> <<1, 2, 3, 4, 5, 6, 7, 8, 9, 10, 11, 12>>] }

----------------------------------------------------------------------------
(* game.ts *)

RECURSIVE SumAmounts(_)
SumAmounts(bets) ==
    IF bets = <<>> THEN 0 ELSE Head(bets).amount + SumAmounts(Tail(bets))

getTotalBet(s) == SumAmounts(s.bets)

\* The default of the parameter: `initialBalance = 1000`.
DefaultBalance == 1000

\* createGameState starting on the smallest chip.
createGameState_SmallestChip(initialBalance) ==
    [ balance       |-> initialBalance,
      bets          |-> <<>>,
      lastBets      |-> <<>>,
      selectedChip  |-> 1,
      phase         |-> "betting",
      lastResult    |-> NoResult,
      lastWinAmount |-> 0 ]

createGameState(initialBalance) ==
    [ balance       |-> initialBalance,
      bets          |-> <<>>,
      lastBets      |-> <<>>,
      selectedChip  |-> 5,
      phase         |-> "betting",
      lastResult    |-> NoResult,
      lastWinAmount |-> 0 ]

arraysEqual(a, b) ==
    IF Len(a) # Len(b) THEN FALSE
    ELSE \A i \in 1..Len(a) : a[i] = b[i]

\* A find that never matches: every placement is appended.
FindExisting_NeverFound(bets, bet) == 0

\* bets.find(...): the index of the first entry with the key, 0 when none.
FindExisting(bets, bet) ==
    LET hits == { i \in 1..Len(bets) :
                    bets[i].type = bet.type /\ arraysEqual(bets[i].numbers, bet.numbers) }
    IN  IF hits = {} THEN 0 ELSE CHOOSE i \in hits : \A j \in hits : i <= j

\* The ledger and the history sharing their entries: the amount written to
\* an entry of the ledger shows in the entry of the history with its key.
Placed_AliasesHistory(s, bet, k, amount) ==
    IF k # 0
    THEN [s EXCEPT !.bets[k].amount = amount,
                   !.lastBets = [i \in 1..Len(@) |->
                                   IF @[i].type = bet.type /\ arraysEqual(@[i].numbers, bet.numbers)
                                   THEN [@[i] EXCEPT !.amount = amount]
                                   ELSE @[i]]]
    ELSE [s EXCEPT !.bets = Append(@, [type |-> bet.type, numbers |-> bet.numbers,
                                        amount |-> s.selectedChip])]

\* A new entry put at the head of the ledger (unshift for push).
Placed_Prepends(s, bet, k, amount) ==
    IF k # 0
    THEN [s EXCEPT !.bets[k].amount = amount]
    ELSE [s EXCEPT !.bets = <<[type |-> bet.type, numbers |-> bet.numbers,
                               amount |-> s.selectedChip]>> \o @]

\* The ledger after placeBet's `if (existing) ... else ...`: entry k given
\* the amount when there is one (k # 0), a new entry with the chip appended
\* when there is none.
Placed(s, bet, k, amount) ==
    IF k # 0
    THEN [s EXCEPT !.bets[k].amount = amount]
    ELSE [s EXCEPT !.bets = Append(@, [type |-> bet.type, numbers |-> bet.numbers,
                                        amount |-> s.selectedChip])]

\* placeBet checking the chip against the balance alone, not the remaining balance.
placeBet_IgnoresStakes(s, bet) ==
    IF s.phase # "betting" THEN [ok |-> FALSE, state |-> s]
    ELSE IF s.selectedChip > s.balance THEN [ok |-> FALSE, state |-> s]
    ELSE LET k == FindExisting(s.bets, bet) IN
         [ok |-> TRUE,
          state |-> Placed(s, bet, k, IF k # 0 THEN s.bets[k].amount + s.selectedChip ELSE 0)]

\* placeBet refusing a chip equal to the remaining balance (>= for >).
placeBet_RefusesExactChip(s, bet) ==
    IF s.phase # "betting" THEN [ok |-> FALSE, state |-> s]
    ELSE IF s.selectedChip >= s.balance - getTotalBet(s) THEN [ok |-> FALSE, state |-> s]
    ELSE LET k == FindExisting(s.bets, bet) IN
         [ok |-> TRUE,
          state |-> Placed(s, bet, k, IF k # 0 THEN s.bets[k].amount + s.selectedChip ELSE 0)]

\* placeBet entering the bet before it checks the balance.
placeBet_PlacesThenChecks(s, bet) ==
    IF s.phase # "betting" THEN [ok |-> FALSE, state |-> s]
    ELSE LET k == FindExisting(s.bets, bet)
             p == Placed(s, bet, k, IF k # 0 THEN s.bets[k].amount + s.selectedChip ELSE 0)
         IN  IF s.selectedChip > s.balance - getTotalBet(s)
             THEN [ok |-> FALSE, state |-> p]
             ELSE [ok |-> TRUE, state |-> p]

\* placeBet setting the amount of an existing entry to the chip (= for +=).
placeBet_OverwritesAmount(s, bet) ==
    IF s.phase # "betting" THEN [ok |-> FALSE, state |-> s]
    ELSE IF s.selectedChip > s.balance - getTotalBet(s) THEN [ok |-> FALSE, state |-> s]
    ELSE [ok |-> TRUE, state |-> Placed(s, bet, FindExisting(s.bets, bet), s.selectedChip)]

\* placeBet with no look at the balance.
placeBet_OnCredit(s, bet) ==
    IF s.phase # "betting" THEN [ok |-> FALSE, state |-> s]
    ELSE LET k == FindExisting(s.bets, bet) IN
         [ok |-> TRUE,
          state |-> Placed(s, bet, k, IF k # 0 THEN s.bets[k].amount + s.selectedChip ELSE 0)]

\* placeBet(state, bet): [ok |-> the value returned, state |-> the state left].
placeBet(s, bet) ==
    IF s.phase # "betting" THEN [ok |-> FALSE, state |-> s]
    ELSE IF s.selectedChip > s.balance - getTotalBet(s) THEN [ok |-> FALSE, state |-> s]
    ELSE LET k == FindExisting(s.bets, bet) IN
         [ok |-> TRUE,
          state |-> Placed(s, bet, k, IF k # 0 THEN s.bets[k].amount + s.selectedChip ELSE 0)]

\* clearBets emptying the history of the last round as well.
clearBets_ForgetsHistory(s) == [s EXCEPT !.bets = <<>>, !.lastBets = <<>>]

clearBets(s) == [s EXCEPT !.bets = <<>>]

\* The values Math.random() yields: k stands for k / RandomScale, in [0, 1).
MathRandom == 0..(RandomScale - 1)

\* generateResult with Math.round for Math.floor.
generateResult_Rounds(random) == (2 * random * 37 + RandomScale) \div (2 * RandomScale)

\* generateResult(): Math.floor(Math.random() * 37), given the value drawn.
generateResult(random) == (random * 37) \div RandomScale

Includes(numbers, result) == \E i \in 1..Len(numbers) : numbers[i] = result

\* isBetWin comparing the outcome with the first target only.
isBetWin_FirstTargetOnly(bet, result) ==
    CASE bet.type \in {"straight", "split", "street", "corner", "sixline", "column", "dozen"} ->
            Len(bet.numbers) > 0 /\ bet.numbers[1] = result
      [] bet.type = "red"   -> result > 0 /\ result \in RED_NUMBERS
      [] bet.type = "black" -> result > 0 /\ result \notin RED_NUMBERS
      [] bet.type = "odd"   -> result > 0 /\ result % 2 = 1
      [] bet.type = "even"  -> result > 0 /\ result % 2 = 0
      [] bet.type = "low"   -> result >= 1 /\ result <= 18
      [] bet.type = "high"  -> result >= 19 /\ result <= 36

\* isBetWin counting the zero as an even number (no `result > 0`).
isBetWin_ZeroIsEven(bet, result) ==
    CASE bet.type \in {"straight", "split", "street", "corner", "sixline", "column", "dozen"} ->
            Includes(bet.numbers, result)
      [] bet.type = "red"   -> result > 0 /\ result \in RED_NUMBERS
      [] bet.type = "black" -> result > 0 /\ result \notin RED_NUMBERS
      [] bet.type = "odd"   -> result > 0 /\ result % 2 = 1
      [] bet.type = "even"  -> result % 2 = 0
      [] bet.type = "low"   -> result >= 1 /\ result <= 18
      [] bet.type = "high"  -> result >= 19 /\ result <= 36

isBetWin(bet, result) ==
    CASE bet.type \in {"straight", "split", "street", "corner", "sixline"} ->
            Includes(bet.numbers, result)
      [] bet.type \in {"column", "dozen"} -> Includes(bet.numbers, result)
      [] bet.type = "red"   -> result > 0 /\ result \in RED_NUMBERS
      [] bet.type = "black" -> result > 0 /\ result \notin RED_NUMBERS
      [] bet.type = "odd"   -> result > 0 /\ result % 2 = 1
      [] bet.type = "even"  -> result > 0 /\ result % 2 = 0
      [] bet.type = "low"   -> result >= 1 /\ result <= 18
      [] bet.type = "high"  -> result >= 19 /\ result <= 36

\* The loop paying the profit without returning the stake.
RECURSIVE TotalWin_ProfitOnly(_, _)
TotalWin_ProfitOnly(bets, result) ==
    IF bets = <<>> THEN 0
    ELSE (IF isBetWin(Head(bets), result)
          THEN Head(bets).amount * PAYOUT_MAP[Head(bets).type]
          ELSE 0)
         + TotalWin_ProfitOnly(Tail(bets), result)

\* The loop of resolveBets: totalWin accumulated over the bets in order.
RECURSIVE TotalWin(_, _)
TotalWin(bets, result) ==
    IF bets = <<>> THEN 0
    ELSE (IF isBetWin(Head(bets), result)
          THEN Head(bets).amount + Head(bets).amount * PAYOUT_MAP[Head(bets).type]
          ELSE 0)
         + TotalWin(Tail(bets), result)

\* The snapshot of the wagers kept for repeat-betting (GameState.lastBets,
\* types.ts 29): a copy of the active bets taken at settlement.  The
\* resolveBets under src/ predates the field; this part follows the
\* specification, as do isBankrupt, undoLastBet and repeatBets below, which
\* main.ts imports from the game module.
SnapshotLastBets(s) == s.bets

\* resolveBets recording the net result of the round as the win amount.
resolveBets_NetWin(s, result) ==
    LET totalWin == TotalWin(s.bets, result)
        totalBet == getTotalBet(s)
    IN  [win   |-> totalWin,
         state |-> [s EXCEPT !.balance       = s.balance - totalBet + totalWin,
                             !.lastBets      = SnapshotLastBets(s),
                             !.lastResult    = result,
                             !.lastWinAmount = totalWin - totalBet]]

\* resolveBets emptying the ledger itself once the round is paid.
resolveBets_ClearsBets(s, result) ==
    LET totalWin == TotalWin(s.bets, result)
        totalBet == getTotalBet(s)
    IN  [win   |-> totalWin,
         state |-> [s EXCEPT !.balance       = s.balance - totalBet + totalWin,
                             !.bets          = <<>>,
                             !.lastBets      = SnapshotLastBets(s),
                             !.lastResult    = result,
                             !.lastWinAmount = totalWin]]

\* resolveBets(state, result): [win |-> the value returned, state |-> the state left].
resolveBets(s, result) ==
    LET totalWin == TotalWin(s.bets, result)
        totalBet == getTotalBet(s)
    IN  [win   |-> totalWin,
         state |-> [s EXCEPT !.balance       = s.balance - totalBet + totalWin,
                             !.lastBets      = SnapshotLastBets(s),
                             !.lastResult    = result,
                             !.lastWinAmount = totalWin]]

\* isBankrupt looking at the balance alone.
isBankrupt_BalanceOnly(s) == s.balance = 0

\* isBankrupt(state)
isBankrupt(s) == s.balance = 0 /\ Len(s.bets) = 0

\* undoLastBet removing the oldest entry (shift for pop).
undoLastBet_RemovesFirst(s) ==
    IF s.phase # "betting" THEN [ok |-> FALSE, state |-> s]
    ELSE IF Len(s.bets) = 0 THEN [ok |-> FALSE, state |-> s]
    ELSE [ok |-> TRUE, state |-> [s EXCEPT !.bets = Tail(@)]]

\* undoLastBet(state): pops the most recently appended entry.
undoLastBet(s) ==
    IF s.phase # "betting" THEN [ok |-> FALSE, state |-> s]
    ELSE IF Len(s.bets) = 0 THEN [ok |-> FALSE, state |-> s]
    ELSE [ok |-> TRUE, state |-> [s EXCEPT !.bets = SubSeq(@, 1, Len(@) - 1)]]

\* A historical bet without an entry put at the head of the ledger.
MergeBet_Prepends(bets, b) ==
    LET k == FindExisting(bets, b) IN
    IF k # 0 THEN [bets EXCEPT ![k].amount = @ + b.amount]
    ELSE <<b>> \o bets

\* One historical bet merged by key into the ledger, with its own amount.
MergeBet(bets, b) ==
    LET k == FindExisting(bets, b) IN
    IF k # 0 THEN [bets EXCEPT ![k].amount = @ + b.amount]
    ELSE Append(bets, b)

RECURSIVE MergeAll(_, _)
MergeAll(bets, hist) ==
    IF hist = <<>> THEN bets ELSE MergeAll(MergeBet(bets, Head(hist)), Tail(hist))

\* repeatBets placing the selected chip on every bet of the history, not
\* the amount the bet had.
repeatBets_UsesChip(s) ==
    IF s.phase # "betting" THEN [ok |-> FALSE, state |-> s]
    ELSE IF Len(s.lastBets) = 0 THEN [ok |-> FALSE, state |-> s]
    ELSE IF SumAmounts(s.lastBets) > s.balance - getTotalBet(s) THEN [ok |-> FALSE, state |-> s]
    ELSE [ok |-> TRUE,
          state |-> [s EXCEPT !.bets =
                       MergeAll(@, [i \in 1..Len(s.lastBets) |->
                                      [s.lastBets[i] EXCEPT !.amount = s.selectedChip]])]]

\* repeatBets(state): all of lastBets or nothing.
repeatBets(s) ==
    IF s.phase # "betting" THEN [ok |-> FALSE, state |-> s]
    ELSE IF Len(s.lastBets) = 0 THEN [ok |-> FALSE, state |-> s]
    ELSE IF SumAmounts(s.lastBets) > s.balance - getTotalBet(s) THEN [ok |-> FALSE, state |-> s]
    ELSE [ok |-> TRUE, state |-> [s EXCEPT !.bets = MergeAll(@, s.lastBets)]]

----------------------------------------------------------------------------
(* The record of the last call into the game module *)

NoBet == [type |-> "none", numbers |-> <<>>]

Call(op, pre, post, bet, result, ok, win) ==
    [op |-> op, pre |-> pre, post |-> post, bet |-> bet, result |-> result,
     ok |-> ok, win |-> win]

NoCall(s) == Call("none", s, s, NoBet, NoResult, TRUE, 0)

\* The call that made the session s.
NewSession(s) == Call("createGameState", s, s, NoBet, NoResult, TRUE, 0)

----------------------------------------------------------------------------
(* history.ts *)

MAX_ENTRIES == 20

\* entries.unshift(e): e in front.
unshift(entries, e) == <<e>> \o entries

\* shift() for pop(): the first one removed.
pop_Shift(entries) == Tail(entries)

\* entries.pop(): the last one removed.
pop(entries) == SubSeq(entries, 1, Len(entries) - 1)

\* addEntry(result, bets, winAmount): the entries it leaves.
addEntry(entries, result, bets, winAmount) ==
    LET totalBet == SumAmounts(bets)
        added    == unshift(entries, [result |-> result, totalBet |-> totalBet,
                                      winAmount |-> winAmount])
    IN  IF Len(added) > MAX_ENTRIES THEN pop(added) ELSE added

\* clear(): no entries.
clearHistory == <<>>

----------------------------------------------------------------------------
(* stats.ts *)

defaultStats ==
    [ totalRounds |-> 0, totalWagered |-> 0, totalWon |-> 0, wins |-> 0, losses |-> 0,
      currentStreak |-> 0, longestWinStreak |-> 0, longestLoseStreak |-> 0,
      numberBets |-> <<>> ]

Max(a, b) == IF a >= b THEN a ELSE b

Abs(a) == IF a >= 0 THEN a ELSE -a

\* `stats.numberBets[key] = (stats.numberBets[key] ?? 0) + 1` for every
\* straight bet of the list, keyed by its first number.
RECURSIVE countNumbers(_, _)
countNumbers(numberBets, bets) ==
    IF bets = <<>> THEN numberBets
    ELSE LET bet == Head(bets) IN
         IF bet.type = "straight"
         THEN LET key == bet.numbers[1] IN
              countNumbers(IF key \in DOMAIN numberBets
                           THEN [numberBets EXCEPT ![key] = @ + 1]
                           ELSE (key :> 1) @@ numberBets,
                           Tail(bets))
         ELSE countNumbers(numberBets, Tail(bets))

\* recordRound counting on from a run of the other kind (no `= 1`, `= -1`).
recordRound_NeverRestarts(stats, bets, totalWin) ==
    LET totalBet == SumAmounts(bets)
        isWin    == totalWin > 0
        streak   == IF isWin
                    THEN stats.currentStreak + 1
                    ELSE stats.currentStreak - 1
    IN  [ totalRounds       |-> stats.totalRounds + 1,
          totalWagered      |-> stats.totalWagered + totalBet,
          totalWon          |-> stats.totalWon + totalWin,
          wins              |-> IF isWin THEN stats.wins + 1 ELSE stats.wins,
          losses            |-> IF isWin THEN stats.losses ELSE stats.losses + 1,
          currentStreak     |-> streak,
          longestWinStreak  |-> IF isWin THEN Max(stats.longestWinStreak, streak)
                                ELSE stats.longestWinStreak,
          longestLoseStreak |-> IF isWin THEN stats.longestLoseStreak
                                ELSE Max(stats.longestLoseStreak, Abs(streak)),
          numberBets        |-> countNumbers(stats.numberBets, bets) ]

\* recordRound(bets, totalWin): the stats it leaves.
recordRound(stats, bets, totalWin) ==
    LET totalBet == SumAmounts(bets)
        isWin    == totalWin > 0
        streak   == IF isWin
                    THEN IF stats.currentStreak >= 0 THEN stats.currentStreak + 1 ELSE 1
                    ELSE IF stats.currentStreak <= 0 THEN stats.currentStreak - 1 ELSE -1
    IN  [ totalRounds       |-> stats.totalRounds + 1,
          totalWagered      |-> stats.totalWagered + totalBet,
          totalWon          |-> stats.totalWon + totalWin,
          wins              |-> IF isWin THEN stats.wins + 1 ELSE stats.wins,
          losses            |-> IF isWin THEN stats.losses ELSE stats.losses + 1,
          currentStreak     |-> streak,
          longestWinStreak  |-> IF isWin THEN Max(stats.longestWinStreak, streak)
                                ELSE stats.longestWinStreak,
          longestLoseStreak |-> IF isWin THEN stats.longestLoseStreak
                                ELSE Max(stats.longestLoseStreak, Abs(streak)),
          numberBets        |-> countNumbers(stats.numberBets, bets) ]

\* The history and the statistics of a first visit.
NoRecords == [entries |-> <<>>, stats |-> defaultStats]

----------------------------------------------------------------------------
(* main.ts *)

\* loadBalance(): the stored balance, the default 1000 when there is none.
loadBalance(stored) == IF stored = NoSaved THEN 1000 ELSE stored

\* updateUI(): the flags it derives from the state.
updateUI(s) ==
    LET isBetting == s.phase = "betting"
        bankrupt  == isBankrupt(s)
    IN  [ spinDisabled   |-> Len(s.bets) = 0 \/ ~isBetting \/ bankrupt,
          clearDisabled  |-> ~isBetting \/ bankrupt,
          repeatDisabled |-> ~isBetting \/ Len(s.lastBets) = 0 \/ bankrupt,
          undoDisabled   |-> ~isBetting \/ Len(s.bets) = 0 \/ bankrupt,
          gameOverHidden |-> ~bankrupt ]

IdleWheel == [spinning |-> FALSE, targetPocket |-> NoResult, raf |-> FALSE, frames |-> 0]

NoPending == [active |-> FALSE, result |-> NoResult, betsSnapshot |-> <<>>, balanceBefore |-> 0]

Init ==
    /\ records = NoRecords
    /\ saved \in SavedBalances \cup {NoSaved}
    /\ state = createGameState(loadBalance(saved))
    /\ ui = updateUI(state)
    /\ wheel = IdleWheel
    /\ pending = NoPending
    /\ timers = 0
    /\ steps = 0
    /\ last = NewSession(state)

\* The board callback (main.ts 62-68): a cell or zone of the board is clicked.
BoardClick(bet) ==
    /\ state.phase = "betting"
    /\ LET r == placeBet(state, bet) IN
       /\ r.ok => getTotalBet(r.state) <= MaxWager
       /\ state' = r.state
       /\ last' = Call("placeBet", state, r.state, bet, NoResult, r.ok, 0)
       /\ ui' = IF r.ok THEN updateUI(r.state) ELSE ui
    /\ UNCHANGED <<wheel, pending, timers, saved, steps, records>>

\* A chip of the selector is clicked, or keys 1-4 (main.ts 77-80, 291-296).
ChipClick(value) ==
    /\ state.selectedChip # value
    /\ state' = [state EXCEPT !.selectedChip = value]
    /\ last' = NoCall(state')
    /\ UNCHANGED <<ui, wheel, pending, timers, saved, steps, records>>

\* The handler leaving the settled bets on the table (no `state.bets = []`).
Settle_KeepsBets(s, result, betsSnapshot) ==
    LET r     == resolveBets(s, result)
        after == [r.state EXCEPT !.phase = "result"]
    IN  /\ state' = after
        /\ saved' = r.state.balance
        /\ last' = Call("resolveBets", s, r.state, NoBet, result, TRUE, r.win)
        /\ ui' = updateUI(after)
        /\ records' = [entries |-> addEntry(records.entries, result, betsSnapshot, r.win),
                       stats   |-> recordRound(records.stats, betsSnapshot, r.win)]
        /\ timers' = IF isBankrupt(after) THEN timers ELSE timers + 1

\* The rest of the spin handler once `await wheel.spin(result)` resumes
\* (main.ts 141-196), applied to s, the session `state` names at that time;
\* betsSnapshot is the copy of the ledger the handler took at the click.
Settle(s, result, betsSnapshot) ==
    LET r     == resolveBets(s, result)
        after == [r.state EXCEPT !.phase = "result", !.bets = <<>>]
    IN  /\ state' = after
        /\ saved' = r.state.balance
        /\ last' = Call("resolveBets", s, r.state, NoBet, result, TRUE, r.win)
        /\ ui' = updateUI(after)
        /\ records' = [entries |-> addEntry(records.entries, result, betsSnapshot, r.win),
                       stats   |-> recordRound(records.stats, betsSnapshot, r.win)]
        /\ timers' = IF isBankrupt(after) THEN timers ELSE timers + 1

\* The spin button is clicked (main.ts 125-139) and wheel.spin starts
\* (wheel.ts 161-228): an animation in flight is cancelled, its promise is
\* never resolved.  Under reduced motion the new promise is resolved at once
\* and the handler resumes before any other event is handled.
SpinClick(result, reducedMotion) ==
    /\ ~ui.spinDisabled
    /\ state.phase = "betting" /\ Len(state.bets) # 0
    /\ steps < MaxRounds
    /\ steps' = steps + 1
    /\ IF reducedMotion
       THEN /\ wheel' = [spinning |-> FALSE, targetPocket |-> result,
                         raf |-> FALSE, frames |-> 0]
            /\ pending' = NoPending
            /\ Settle([state EXCEPT !.phase = "spinning"], result, state.bets)
       ELSE /\ state' = [state EXCEPT !.phase = "spinning"]
            /\ ui' = updateUI(state')
            /\ wheel' = [spinning |-> TRUE, targetPocket |-> result,
                         raf |-> TRUE, frames |-> 0]
            /\ pending' = [active |-> TRUE, result |-> result,
                           betsSnapshot |-> state.bets, balanceBefore |-> state.balance]
            /\ last' = NoCall(state')
            /\ UNCHANGED <<timers, saved, records>>

\* The frame handler settling with the pocket next to the committed one.
AnimationFrame_SettlesNextPocket(done) ==
    /\ wheel.raf
    /\ (wheel.frames + 1 >= MaxFrames) => done
    /\ IF done
       THEN /\ wheel' = [wheel EXCEPT !.raf = FALSE, !.spinning = FALSE, !.frames = 0]
            /\ pending' = NoPending
            /\ Settle(state, (pending.result + 1) % 37, pending.betsSnapshot)
       ELSE /\ wheel' = [wheel EXCEPT !.frames = @ + 1]
            /\ last' = NoCall(state)
            /\ UNCHANGED <<state, ui, pending, timers, saved, records>>
    /\ UNCHANGED steps

\* requestAnimationFrame delivers a frame of the animation (wheel.ts 205-224).
AnimationFrame(done) ==
    /\ wheel.raf
    /\ (wheel.frames + 1 >= MaxFrames) => done
    /\ IF done
       THEN /\ wheel' = [wheel EXCEPT !.raf = FALSE, !.spinning = FALSE, !.frames = 0]
            /\ pending' = NoPending
            /\ Settle(state, pending.result, pending.betsSnapshot)
       ELSE /\ wheel' = [wheel EXCEPT !.frames = @ + 1]
            /\ last' = NoCall(state)
            /\ UNCHANGED <<state, ui, pending, timers, saved, records>>
    /\ UNCHANGED steps

\* The dwell timeout fires (main.ts 192-196).
DwellTimeout ==
    /\ timers > 0
    /\ timers' = timers - 1
    /\ state' = [state EXCEPT !.phase = "betting"]
    /\ ui' = updateUI(state')
    /\ last' = NoCall(state')
    /\ UNCHANGED <<wheel, pending, saved, steps, records>>

\* The clear button or Escape (main.ts 200-203).
ClearClick ==
    /\ ~ui.clearDisabled
    /\ state' = clearBets(state)
    /\ last' = Call("clearBets", state, state', NoBet, NoResult, TRUE, 0)
    /\ ui' = updateUI(state')
    /\ UNCHANGED <<wheel, pending, timers, saved, steps, records>>

\* The repeat button or R (main.ts 206-211).
RepeatClick ==
    /\ ~ui.repeatDisabled
    /\ LET r == repeatBets(state) IN
       /\ r.ok => getTotalBet(r.state) <= MaxWager
       /\ state' = r.state
       /\ last' = Call("repeatBets", state, r.state, NoBet, NoResult, r.ok, 0)
       /\ ui' = IF r.ok THEN updateUI(r.state) ELSE ui
    /\ UNCHANGED <<wheel, pending, timers, saved, steps, records>>

\* The undo button or Z (main.ts 214-218).
UndoClick ==
    /\ ~ui.undoDisabled
    /\ LET r == undoLastBet(state) IN
       /\ state' = r.state
       /\ last' = Call("undoLastBet", state, r.state, NoBet, NoResult, r.ok, 0)
       /\ ui' = IF r.ok THEN updateUI(r.state) ELSE ui
    /\ UNCHANGED <<wheel, pending, timers, saved, steps, records>>

\* The new-game or restart button (main.ts 221-232).
resetGame ==
    /\ saved' = NoSaved
    /\ state' = createGameState(DefaultBalance)
    /\ ui' = updateUI(state')
    /\ last' = NewSession(state')
    /\ records' = [entries |-> clearHistory, stats |-> defaultStats]
    /\ UNCHANGED <<wheel, pending, timers, steps>>

Next ==
    \/ \E bet \in BoardBets : BoardClick(bet)
    \/ \E value \in ChipsClicked : ChipClick(value)
    \/ \E random \in MathRandom, rm \in BOOLEAN :
          /\ generateResult(random) \in SpinOutcomes
          /\ SpinClick(generateResult(random), rm)
    \/ \E done \in BOOLEAN : AnimationFrame(done)
    \/ DwellTimeout
    \/ ClearClick
    \/ RepeatClick
    \/ UndoClick
    \/ resetGame

Spec == Init /\ [][Next]_vars

\* The browser delivers the frame callback that is scheduled and fires the
\* timers that are set.
SpecFair ==
    /\ Spec
    /\ WF_vars(\E done \in BOOLEAN : AnimationFrame(done))
    /\ WF_vars(DwellTimeout)

----------------------------------------------------------------------------
(* The game module called directly (game.test.ts): a fresh session, then   *)
(* any exported function with any argument, and the fields the tests set.  *)

InitApi ==
    /\ records = NoRecords
    /\ state \in { createGameState(b) : b \in ApiBalances }
    /\ ui = updateUI(state)
    /\ wheel = IdleWheel
    /\ pending = NoPending
    /\ timers = 0
    /\ saved = NoSaved
    /\ steps = 0
    /\ last = NewSession(state)

ApiStep ==
    /\ steps < MaxCalls
    /\ steps' = steps + 1
    /\ UNCHANGED <<ui, wheel, pending, timers, saved, records>>

ApiPlaceBet(bet) ==
    /\ LET r == placeBet(state, bet) IN
       /\ r.ok => getTotalBet(r.state) <= MaxWager
       /\ state' = r.state
       /\ last' = Call("placeBet", state, r.state, bet, NoResult, r.ok, 0)
    /\ ApiStep

\* `state.selectedChip = 25` (game.test.ts 47)
ApiSelectChip(value) ==
    /\ state.selectedChip # value
    /\ state' = [state EXCEPT !.selectedChip = value]
    /\ last' = NoCall(state')
    /\ ApiStep

\* `state.phase = 'spinning'` (game.test.ts 32)
ApiSetPhase(p) ==
    /\ state.phase # p
    /\ state' = [state EXCEPT !.phase = p]
    /\ last' = NoCall(state')
    /\ ApiStep

ApiClearBets ==
    /\ state' = clearBets(state)
    /\ last' = Call("clearBets", state, state', NoBet, NoResult, TRUE, 0)
    /\ ApiStep

ApiUndoLastBet ==
    /\ LET r == undoLastBet(state) IN
       /\ state' = r.state
       /\ last' = Call("undoLastBet", state, r.state, NoBet, NoResult, r.ok, 0)
    /\ ApiStep

ApiRepeatBets ==
    /\ LET r == repeatBets(state) IN
       /\ r.ok => getTotalBet(r.state) <= MaxWager
       /\ state' = r.state
       /\ last' = Call("repeatBets", state, r.state, NoBet, NoResult, r.ok, 0)
    /\ ApiStep

ApiIsBankrupt ==
    /\ state' = state
    /\ last' = Call("isBankrupt", state, state, NoBet, NoResult, isBankrupt(state), 0)
    /\ ApiStep

ApiResolveBets(result) ==
    /\ LET r == resolveBets(state, result) IN
       /\ state' = r.state
       /\ last' = Call("resolveBets", state, r.state, NoBet, result, TRUE, r.win)
    /\ ApiStep

NextApi ==
    \/ \E bet \in ApiBets : ApiPlaceBet(bet)
    \/ \E value \in ChipsClicked : ApiSelectChip(value)
    \/ \E p \in Phases : ApiSetPhase(p)
    \/ ApiClearBets
    \/ ApiUndoLastBet
    \/ ApiRepeatBets
    \/ ApiIsBankrupt
    \/ \E result \in ApiResults : ApiResolveBets(result)

SpecApi == InitApi /\ [][NextApi]_vars

----------------------------------------------------------------------------
(* resolveBets on a ledger of one bet (game.test.ts, describe resolveBets): *)
(* a bet of every category, settled once on every pocket.                  *)

\* One placement of each category, as the board emits them; the outside
\* bets carry no numbers.
TestBets ==
    { b \in ApiBets : Len(b.numbers) > 0 /\ b.numbers[1] <= b.numbers[Len(b.numbers)] } \cup
    { [type |-> "street",  numbers |-> <<7, 8, 9>>],
      [type |-> "sixline", numbers |-> <<7, 8, 9, 10, 11, 12>>] } \cup
    { [type |-> t, numbers |-> <<>>] : t \in {"red", "black", "odd", "even", "low", "high"} }

\* The amounts of the bets settled: a chip and the 10 of the tests.
TestAmounts == {1, 10}

\* makeState({ bets }): the default session with the given ledger.
makeState(bets) == [createGameState(1000) EXCEPT !.bets = bets]

InitSettle ==
    /\ records = NoRecords
    /\ state \in { makeState(<<[type |-> b.type, numbers |-> b.numbers, amount |-> a]>>) :
                      b \in TestBets, a \in TestAmounts }
    /\ ui = updateUI(state)
    /\ wheel = IdleWheel
    /\ pending = NoPending
    /\ timers = 0
    /\ saved = NoSaved
    /\ steps = 0
    /\ last = NoCall(state)

\* `const win = resolveBets(state, result)`, once per test.
NextSettle ==
    \E result \in WHEEL_SEQUENCE_US : steps = 0 /\ ApiResolveBets(result)

SpecSettle == InitSettle /\ [][NextSettle]_vars

----------------------------------------------------------------------------
(* The history manager alone (history.ts): addEntry and clear called in    *)
(* any order on a history that starts empty.                               *)

\* The ledgers and wins recorded: nothing staked, one bet, two bets.
HistoryBets ==
    { <<>>,
      <<[type |-> "straight", numbers |-> <<7>>, amount |-> 5]>>,
      <<[type |-> "straight", numbers |-> <<7>>, amount |-> 5],
        [type |-> "red", numbers |-> <<>>, amount |-> 10]>> }

HistoryWins == {0, 180}

\* How many of the first rounds are recorded with every ledger and win of
\* the sets above; the later ones with two bets and no win.
VariedRounds == 2

\* The k-th round recorded (k from 0) lands on pocket k mod 37, which tells
\* the entries apart.
HistoryRounds(k) ==
    { [result |-> k % 37, bets |-> b, winAmount |-> w] :
        b \in IF k < VariedRounds
               THEN HistoryBets
               ELSE { <<[type |-> "straight", numbers |-> <<7>>, amount |-> 5],
                        [type |-> "red", numbers |-> <<>>, amount |-> 10]>> },
        w \in IF k < VariedRounds THEN HistoryWins ELSE {0} }

InitHistory ==
    /\ records = NoRecords
    /\ state = createGameState(DefaultBalance)
    /\ ui = updateUI(state)
    /\ wheel = IdleWheel
    /\ pending = NoPending
    /\ timers = 0
    /\ saved = NoSaved
    /\ steps = 0
    /\ last = [op |-> "none", pre |-> <<>>, round |-> [result |-> NoResult, bets |-> <<>>, winAmount |-> 0]]

HistoryAddEntry(round) ==
    /\ steps < MaxAdds
    /\ steps' = steps + 1
    /\ records' = [records EXCEPT
                     !.entries = addEntry(@, round.result, round.bets, round.winAmount)]
    /\ last' = [op |-> "addEntry", pre |-> records.entries, round |-> round]
    /\ UNCHANGED <<state, ui, wheel, pending, timers, saved>>

\* clear(): from resetGame or the panel's Clear button (history.ts 49).
HistoryClear ==
    /\ records' = [records EXCEPT !.entries = clearHistory]
    /\ last' = [last EXCEPT !.op = "clear", !.pre = records.entries]
    /\ UNCHANGED <<state, ui, wheel, pending, timers, saved, steps>>

NextHistory ==
    \/ \E round \in HistoryRounds(steps) : HistoryAddEntry(round)
    \/ HistoryClear

SpecHistory == InitHistory /\ [][NextHistory]_vars

----------------------------------------------------------------------------
(* The statistics manager alone (stats.ts): recordRound and clear called   *)
(* in any order on statistics that start at the defaults.                  *)

StatsBets ==
    { <<[type |-> "straight", numbers |-> <<7>>, amount |-> 5]>>,
      <<[type |-> "red", numbers |-> <<>>, amount |-> 10],
        [type |-> "straight", numbers |-> <<7>>, amount |-> 5]>> }

\* Nothing returned, an even-money return, a straight win.
StatsWins == {0, 20, 180}

\* `last.wins`: for every round recorded since the defaults, in order,
\* whether its totalWin was positive.
InitStats ==
    /\ records = NoRecords
    /\ state = createGameState(DefaultBalance)
    /\ ui = updateUI(state)
    /\ wheel = IdleWheel
    /\ pending = NoPending
    /\ timers = 0
    /\ saved = NoSaved
    /\ steps = 0
    /\ last = [op |-> "none", wins |-> <<>>]

StatsRecordRound(bets, totalWin) ==
    /\ steps < MaxRecorded
    /\ steps' = steps + 1
    /\ records' = [records EXCEPT !.stats = recordRound(@, bets, totalWin)]
    /\ last' = [op |-> "recordRound", wins |-> Append(last.wins, totalWin > 0)]
    /\ UNCHANGED <<state, ui, wheel, pending, timers, saved>>

\* clear(): from resetGame or the panel's Reset button (stats.ts 97).
StatsClear ==
    /\ records' = [records EXCEPT !.stats = defaultStats]
    /\ last' = [op |-> "clear", wins |-> <<>>]
    /\ UNCHANGED <<state, ui, wheel, pending, timers, saved, steps>>

NextStats ==
    \/ \E bets \in StatsBets, totalWin \in StatsWins : StatsRecordRound(bets, totalWin)
    \/ StatsClear

SpecStats == InitStats /\ [][NextStats]_vars

----------------------------------------------------------------------------
(* The application a moment after a new game: the round before it ended on *)
(* pocket 7 and its dwell timer (main.ts 192-196) has not fired yet; the   *)
(* player has clicked the restart button and, with chip 100, staked the    *)
(* whole balance of the new session on one cell.  One spin has been        *)
(* started so far.                                                         *)

AllInBets ==
    { <<[type |-> "straight", numbers |-> <<7>>, amount |-> DefaultBalance]>>,
      <<[type |-> "red", numbers |-> <<>>, amount |-> DefaultBalance]>> }

InitAllIn ==
    /\ records = NoRecords
    /\ saved = NoSaved
    /\ state \in { [createGameState(DefaultBalance) EXCEPT !.selectedChip = 100, !.bets = b] :
                      b \in AllInBets }
    /\ ui = updateUI(state)
    /\ wheel = [IdleWheel EXCEPT !.targetPocket = 7]
    /\ pending = NoPending
    /\ timers = 1
    /\ steps = 1
    /\ last = NoCall(state)

SpecAllIn == InitAllIn /\ [][Next]_vars

----------------------------------------------------------------------------
(* wheel.ts: the wheel by itself, its angles, its frame callbacks and the  *)
(* promises spin returns, under a caller that may call spin at any time.   *)
(* Spec above keeps of the wheel what the spin handler waits for; here     *)
(*   wheel    is the WheelState (angle, ballAngle, spinning, targetPocket), *)
(*            rafId, the callbacks requestAnimationFrame holds, and which  *)
(*            of the two sources of the wheel runs (with or without the   *)
(*            ball's bounce);                                              *)
(*   pending  is the list of the promises spin has returned;               *)
(*   last     is the last event: a spin, a frame, a promise resolved.      *)
(* Angles are integers: a pocket's arc is 32 units, a turn 37 * 32, a      *)
(* quarter turn (PI / 2) 296.                                              *)

POCKET_COUNT == 37
TURN == POCKET_COUNT * 32
POCKET_ARC == TURN \div POCKET_COUNT
\* Math.PI / 2
QuarterTurn == TURN \div 4

MIN_WHEEL_ROTATIONS == 5
EXTRA_ROTATION_RANGE == 3
MIN_BALL_SPINS == 8
EXTRA_BALL_SPIN_RANGE == 4

WHEEL_SEQUENCE_EU ==
    << 0, 32, 15, 19, 4, 21, 2, 25, 17, 34, 6, 27, 13, 36, 11, 30, 8, 23, 10,
       5, 24, 16, 33, 1, 20, 14, 31, 9, 22, 18, 29, 7, 28, 12, 35, 3, 26 >>

WHEEL_SEQUENCE == WHEEL_SEQUENCE_EU

\* Array.prototype.indexOf: the 0-based index of the first occurrence, -1 when none.
indexOf(seq, n) ==
    LET hits == { i \in 1..Len(seq) : seq[i] = n }
    IN  IF hits = {} THEN -1 ELSE (CHOOSE i \in hits : \A j \in hits : i <= j) - 1

\* The % of JavaScript: the remainder has the sign of the dividend.
JsMod(a, n) == IF a >= 0 THEN a % n ELSE -((-a) % n)

\* rafId null; no promise.
NoRaf == 0

\* The pockets spin is explored with: the first, the second and the last of
\* the wheel sequence.
WheelTargets == {0, 32, 26}
\* The values of Math.random() spin is explored with: the ends of [0, 1).
SpinRandoms == {0, RandomScale - 1}
\* The two sources of the wheel: wheel.ts, and the one whose animation ends
\* in a bounce of the ball.
WheelSources == {"wheel", "bounce"}

\* const targetPocketAngle = -Math.PI / 2 - targetIndex * POCKET_ARC
targetPocketAngle(targetNumber) ==
    -QuarterTurn - indexOf(WHEEL_SEQUENCE, targetNumber) * POCKET_ARC

totalWheelSpin(random) ==
    TURN * MIN_WHEEL_ROTATIONS + (TURN * EXTRA_ROTATION_RANGE * random) \div RandomScale

totalBallSpin(random) ==
    -(TURN * MIN_BALL_SPINS + (TURN * EXTRA_BALL_SPIN_RANGE * random) \div RandomScale)

\* wheelEnd landing a fixed number of turns on, whatever the start and the target.
wheelEnd_TurnsOnly(wheelStart, spinTotal, targetNumber) == wheelStart + spinTotal

wheelEnd(wheelStart, spinTotal, targetNumber) ==
    wheelStart + spinTotal +
        JsMod(targetPocketAngle(targetNumber) - JsMod(wheelStart + spinTotal, TURN) + TURN * 2,
              TURN)

\* const ballEnd = -Math.PI / 2
ballEnd == -QuarterTurn

\* The progress of a frame, in halves of the duration: 1 (under way), 2
\* (elapsed >= duration, progress 1).
Progresses == {1, 2}

\* const ease = 1 - Math.pow(1 - progress, 3), in eighths.
EaseEighths(k) == 8 - (2 - k) * (2 - k) * (2 - k)

\* The ball's offset in a frame of the bounce at 1/16 of BOUNCE_DURATION_MS:
\* sin(PI / 2) * (1 - 1/16) * POCKET_ARC * 0.4
BounceOffset == (POCKET_ARC * 4 * 15) \div (10 * 16)

InitWheel ==
    /\ records = NoRecords
    /\ state = createGameState(DefaultBalance)
    /\ ui = updateUI(state)
    /\ timers = 0
    /\ saved = NoSaved
    /\ steps = 0
    /\ wheel \in { [ angle |-> 0, ballAngle |-> 0, spinning |-> FALSE,
                      targetPocket |-> NoResult, rafId |-> NoRaf, queue |-> {},
                      source |-> src ] : src \in WheelSources }
    /\ pending = <<>>
    /\ last = [op |-> "none", promise |-> NoRaf]

\* spin forgetting rafId without cancelling the frame it names.
cancelPending_KeepsCallback(w) == [w EXCEPT !.rafId = NoRaf]

\* `if (rafId !== null) { cancelAnimationFrame(rafId); rafId = null }`
cancelPending(w) ==
    IF w.rafId # NoRaf
    THEN [w EXCEPT !.queue = { c \in @ : c.promise # w.rafId }, !.rafId = NoRaf]
    ELSE w

\* resolve called with the index of the pocket in the wheel sequence.
resolveValue_Index(c) == indexOf(WHEEL_SEQUENCE, c.targetNumber)

\* resolve(targetNumber): the value the promise of the closure c resolves with.
resolveValue(c) == c.targetNumber

\* spin(targetNumber), with what prefers-reduced-motion and Math.random() give.
spin(targetNumber, reducedMotion, wheelRandom, ballRandom) ==
    /\ steps < MaxSpins
    /\ steps' = steps + 1
    /\ LET w  == [cancelPending(wheel) EXCEPT !.spinning = TRUE,
                                               !.targetPocket = targetNumber]
           id == Len(pending) + 1
           c  == [ promise       |-> id,
                   fn            |-> "animate",
                   targetNumber  |-> targetNumber,
                   wheelStart    |-> w.angle,
                   wheelEnd      |-> wheelEnd(w.angle, totalWheelSpin(wheelRandom), targetNumber),
                   ballStart     |-> w.ballAngle,
                   totalBallSpin |-> totalBallSpin(ballRandom),
                   frames        |-> 0 ]
       IN  IF reducedMotion
           THEN /\ wheel' = [w EXCEPT !.angle = targetPocketAngle(targetNumber),
                                       !.ballAngle = -QuarterTurn,
                                       !.spinning = FALSE]
                /\ pending' = Append(pending, [target |-> targetNumber,
                                               value  |-> resolveValue(c)])
                /\ last' = [op |-> "resolve", promise |-> id]
           ELSE /\ wheel' = [w EXCEPT !.rafId = id, !.queue = @ \cup {c}]
                /\ pending' = Append(pending, [target |-> targetNumber, value |-> NoResult])
                /\ last' = [op |-> "spin", promise |-> id]
    /\ UNCHANGED <<state, ui, timers, saved, records>>

\* The browser runs the frame callback animate of the closure c.
animate(c, k) ==
    /\ c \in wheel.queue /\ c.fn = "animate"
    /\ (c.frames + 1 >= MaxFrames) => k = 2
    /\ LET drawn ==
               [wheel EXCEPT
                  !.queue = @ \ {c},
                  !.angle = c.wheelStart
                              + ((c.wheelEnd - c.wheelStart) * EaseEighths(k)) \div 8,
                  !.ballAngle = c.ballStart
                              + ((c.totalBallSpin + (ballEnd - c.ballStart - c.totalBallSpin))
                                    * EaseEighths(k)) \div 8]
       IN  IF k < 2
           THEN /\ wheel' = [drawn EXCEPT !.rafId = c.promise,
                                           !.queue = @ \cup {[c EXCEPT !.frames = @ + 1]}]
                /\ last' = [op |-> "frame", promise |-> c.promise]
                /\ UNCHANGED pending
           ELSE IF wheel.source = "bounce"
           THEN /\ wheel' = [drawn EXCEPT !.rafId = c.promise,
                                           !.queue = @ \cup {[c EXCEPT !.fn = "bounce",
                                                                       !.frames = 0]}]
                /\ last' = [op |-> "frame", promise |-> c.promise]
                /\ UNCHANGED pending
           ELSE /\ wheel' = [drawn EXCEPT !.rafId = NoRaf, !.spinning = FALSE]
                /\ pending' = [pending EXCEPT ![c.promise].value = resolveValue(c)]
                /\ last' = [op |-> "resolve", promise |-> c.promise]
    /\ UNCHANGED <<state, ui, timers, saved, steps, records>>

\* The browser runs the frame callback bounce of the closure c.
bounce(c, k) ==
    /\ c \in wheel.queue /\ c.fn = "bounce"
    /\ (c.frames + 1 >= MaxFrames) => k = 2
    /\ IF k < 2
       THEN /\ wheel' = [wheel EXCEPT !.ballAngle = ballEnd + BounceOffset,
                                       !.rafId = c.promise,
                                       !.queue = (@ \ {c}) \cup {[c EXCEPT !.frames = @ + 1]}]
            /\ last' = [op |-> "frame", promise |-> c.promise]
            /\ UNCHANGED pending
       ELSE /\ wheel' = [wheel EXCEPT !.ballAngle = ballEnd,
                                       !.rafId = NoRaf,
                                       !.spinning = FALSE,
                                       !.queue = @ \ {c}]
            /\ pending' = [pending EXCEPT ![c.promise].value = resolveValue(c)]
            /\ last' = [op |-> "resolve", promise |-> c.promise]
    /\ UNCHANGED <<state, ui, timers, saved, steps, records>>

\* requestAnimationFrame delivers a frame to a callback it holds.
FrameDelivered ==
    \E c \in wheel.queue, k \in Progresses : animate(c, k) \/ bounce(c, k)

NextWheel ==
    \/ \E targetNumber \in WheelTargets, reducedMotion \in BOOLEAN,
          wheelRandom \in SpinRandoms, ballRandom \in SpinRandoms :
          spin(targetNumber, reducedMotion, wheelRandom, ballRandom)
    \/ \E c \in wheel.queue, k \in Progresses : animate(c, k)
    \/ \E c \in wheel.queue, k \in Progresses : bounce(c, k)

SpecWheel == InitWheel /\ [][NextWheel]_vars

\* Frames keep being delivered while a callback is scheduled.
SpecWheelFair == SpecWheel /\ WF_vars(FrameDelivered)

----------------------------------------------------------------------------
(* Properties *)

SetOf(seq) == { seq[i] : i \in 1..Len(seq) }

\* Same category and same target pockets, the targets taken as a set.
SameKey(a, b) == a.type = b.type /\ SetOf(a.numbers) = SetOf(b.numbers)

KeyIndexes(bets, bet) == { i \in 1..Len(bets) : SameKey(bets[i], bet) }

MaxOf(a, b) == IF a >= b THEN a ELSE b

InsideTypes == {"straight", "split", "street", "corner", "sixline", "column", "dozen"}

\* The payout ratios as the specification lists them.
RatioOf(t) ==
    CASE t = "straight" -> 35 [] t = "split" -> 17 [] t = "street" -> 11
      [] t = "corner" -> 8 [] t = "sixline" -> 5 [] t = "column" -> 2
      [] t = "dozen" -> 2
      [] t \in {"red", "black", "odd", "even", "low", "high"} -> 1

\* The return of the bets at the indexes 1..n: stake plus profit of the winners.
RECURSIVE ReturnUpTo(_, _, _)
ReturnUpTo(bets, result, n) ==
    IF n = 0 THEN 0
    ELSE ReturnUpTo(bets, result, n - 1)
         + (IF isBetWin(bets[n], result)
            THEN bets[n].amount + bets[n].amount * RatioOf(bets[n].type)
            ELSE 0)

\* C1: in the application, the amounts of the active bets never sum to more
\* than the session balance, whatever placements and chip selections were made.
C1_StakesWithinBalance == getTotalBet(state) <= state.balance

\* A placement refused in the betting phase although the chip alone is
\* covered by the balance: the bets already placed take the remainder.
C1_Witness ==
    /\ last.op = "placeBet" /\ ~last.ok
    /\ last.pre.phase = "betting"
    /\ last.pre.selectedChip <= last.pre.balance
    /\ getTotalBet(state) = state.balance /\ Len(state.bets) > 0

\* C2: placeBet returns true exactly when the phase is betting and the chip
\* is at most the balance minus the total of the active bets.
C2_PlaceBetResult ==
    last.op = "placeBet" =>
        (last.ok <=> /\ last.pre.phase = "betting"
                     /\ last.pre.selectedChip
                            <= last.pre.balance - SumAmounts(last.pre.bets))

\* A placement accepted with the chip equal to the whole remaining balance.
C2_Witness ==
    /\ last.op = "placeBet" /\ last.ok
    /\ last.pre.selectedChip = last.pre.balance - SumAmounts(last.pre.bets)

\* C3: when placeBet, undoLastBet or repeatBets returns false, the session
\* is exactly as it was before the call.
C3_FailureChangesNothing ==
    (last.op \in {"placeBet", "undoLastBet", "repeatBets"} /\ ~last.ok) =>
        (last.post = last.pre /\ state = last.pre)

\* A placement refused, with bets on the table, for lack of remaining balance.
C3_Witness ==
    /\ last.op = "placeBet" /\ ~last.ok
    /\ last.pre.phase = "betting" /\ Len(last.pre.bets) > 0
    /\ last.pre.selectedChip > last.pre.balance - SumAmounts(last.pre.bets)

\* C4: no two active bets have the same category and the same target pockets,
\* and placing a bet equal to an existing entry adds no entry.
C4_NoDuplicateKeys ==
    /\ \A i, j \in 1..Len(state.bets) :
           i # j => ~SameKey(state.bets[i], state.bets[j])
    /\ (last.op = "placeBet" /\ last.ok /\ KeyIndexes(last.pre.bets, last.bet) # {}) =>
           Len(last.post.bets) = Len(last.pre.bets)

\* A bet placed onto an equal entry of a ledger of two entries.
C4_Witness ==
    /\ last.op = "placeBet" /\ last.ok
    /\ KeyIndexes(last.pre.bets, last.bet) # {}
    /\ Len(state.bets) = 2

\* C5: a successful placeBet either adds the chip to the one equal entry,
\* keeping number and order of the entries, or appends one entry with the
\* chip as its amount; the other entries and every other field are unchanged.
C5_PlaceBetEffect ==
    (last.op = "placeBet" /\ last.ok) =>
        LET pre  == last.pre
            post == last.post
            hit  == KeyIndexes(pre.bets, last.bet)
        IN  /\ post = [pre EXCEPT !.bets = post.bets]
            /\ IF hit # {}
               THEN /\ Cardinality(hit) = 1
                    /\ Len(post.bets) = Len(pre.bets)
                    /\ \A i \in 1..Len(pre.bets) :
                          post.bets[i] =
                            IF i \in hit
                            THEN [pre.bets[i] EXCEPT !.amount = @ + pre.selectedChip]
                            ELSE pre.bets[i]
               ELSE post.bets =
                        Append(pre.bets, [type |-> last.bet.type,
                                          numbers |-> last.bet.numbers,
                                          amount |-> pre.selectedChip])

\* A chip added to the first of two entries, the existing amount kept.
C5_Witness ==
    /\ last.op = "placeBet" /\ last.ok
    /\ Len(last.pre.bets) = 2
    /\ SameKey(last.pre.bets[1], last.bet)
    /\ last.post.bets[1].amount = last.pre.bets[1].amount + last.pre.selectedChip

\* C6: a bet of the same category whose targets are the same pockets in
\* another order merges into the existing entry.
C6_OrderInsensitiveMerge ==
    (last.op = "placeBet" /\ last.ok /\ KeyIndexes(last.pre.bets, last.bet) # {}) =>
        /\ Len(last.post.bets) = Len(last.pre.bets)
        /\ \A i, j \in 1..Len(last.post.bets) :
               i # j => ~SameKey(last.post.bets[i], last.post.bets[j])

\* C7: resolveBets returns the sum, over the winning bets, of the amount plus
\* the amount times the ratio of the category; nothing for the losing bets,
\* and 0 for an empty ledger.
C7_TotalWin ==
    last.op = "resolveBets" =>
        /\ last.win = ReturnUpTo(last.pre.bets, last.result, Len(last.pre.bets))
        /\ last.pre.bets = <<>> => last.win = 0

\* A ledger of a winning and a losing bet settled.
C7_Witness ==
    /\ last.op = "resolveBets"
    /\ Len(last.pre.bets) >= 2
    /\ \E i, j \in 1..Len(last.pre.bets) :
          /\ isBetWin(last.pre.bets[i], last.result)
          /\ ~isBetWin(last.pre.bets[j], last.result)
    /\ last.win > 0

\* C8: after resolveBets the balance is max(0, balance - total wager + total
\* win): a result below zero is clamped to zero.
C8_ClampedBalance ==
    last.op = "resolveBets" =>
        last.post.balance =
            MaxOf(0, last.pre.balance - SumAmounts(last.pre.bets) + last.win)

\* C9: in the application the balance is never negative.
C9_BalanceNonNegative == state.balance >= 0

\* A round settled with the whole balance wagered and lost.
C9_Witness ==
    /\ last.op = "resolveBets"
    /\ last.pre.balance > 0
    /\ SumAmounts(last.pre.bets) = last.pre.balance
    /\ last.win = 0
    /\ state.balance = 0

\* One placement of each of the seven categories, as the board emits them.
InsidePlacements ==
    { b \in ApiBets : b.type \in InsideTypes } \cup
    { [type |-> "street",  numbers |-> <<7, 8, 9>>],
      [type |-> "sixline", numbers |-> <<7, 8, 9, 10, 11, 12>>] }

\* C10: a straight, split, street, corner, sixline, column or dozen bet wins
\* exactly on the outcomes that are among its target pockets: for a placement
\* of each category and every pocket, and for the bets resolveBets settled
\* (a ledger of one such bet returns something exactly on its targets).
C10_InsideBetWins ==
    last.op = "resolveBets" =>
        /\ \A b \in InsidePlacements, r \in (-1)..36 :
               isBetWin(b, r) <=> r \in SetOf(b.numbers)
        /\ \A i \in 1..Len(last.pre.bets) :
               last.pre.bets[i].type \in InsideTypes =>
                  /\ isBetWin(last.pre.bets[i], last.result)
                        <=> last.result \in SetOf(last.pre.bets[i].numbers)
                  /\ Len(last.pre.bets) = 1 =>
                        (last.win > 0 <=> last.result \in SetOf(last.pre.bets[1].numbers))

\* A column bet settled on an outcome that is a target but not the first.
C10_Witness ==
    /\ last.op = "resolveBets"
    /\ Len(last.pre.bets) = 1
    /\ last.pre.bets[1].type = "column"
    /\ last.result \in SetOf(last.pre.bets[1].numbers)
    /\ last.result # last.pre.bets[1].numbers[1]
    /\ last.win = 3 * last.pre.bets[1].amount

\* The predicate of an outside category, as the specification states it.
OutsideTypes == {"red", "black", "odd", "even", "low", "high"}

OutsidePredicate(type, r) ==
    CASE type = "red"   -> r \in RED_NUMBERS
      [] type = "black" -> r \notin RED_NUMBERS
      [] type = "odd"   -> r % 2 = 1
      [] type = "even"  -> r % 2 = 0
      [] type = "low"   -> r \in 1..18
      [] type = "high"  -> r \in 19..36

\* C11: a red, black, odd, even, low or high bet wins exactly when the
\* outcome is a pocket other than 0 and 00 that satisfies the predicate of
\* the category; settled alone it returns twice its amount then, and nothing
\* on 0, on 00 and on the pockets that fail the predicate.
C11_OutsideBetWins ==
    (last.op = "resolveBets" /\ Len(last.pre.bets) = 1
        /\ last.pre.bets[1].type \in OutsideTypes) =>
        LET b    == last.pre.bets[1]
            wins == /\ last.result \notin {0, DOUBLE_ZERO}
                    /\ OutsidePredicate(b.type, last.result)
        IN  /\ isBetWin(b, last.result) <=> wins
            /\ last.win = IF wins THEN 2 * b.amount ELSE 0
            /\ \A t \in OutsideTypes :
                   /\ ~isBetWin([type |-> t, numbers |-> <<>>], 0)
                   /\ ~isBetWin([type |-> t, numbers |-> <<>>], DOUBLE_ZERO)

\* An even bet settled on the zero, and lost.
C11_Witness ==
    /\ last.op = "resolveBets"
    /\ Len(last.pre.bets) = 1 /\ last.pre.bets[1].type = "even"
    /\ last.result = 0
    /\ last.win = 0

\* C12: after resolveBets(state, result) has returned totalWin, lastResult
\* is the result passed in and lastWinAmount is the value returned.
C12_LastResultAndWin ==
    last.op = "resolveBets" =>
        /\ last.post.lastResult = last.result
        /\ last.post.lastWinAmount = last.win
        /\ state.lastResult = last.result
        /\ state.lastWinAmount = last.win

\* A winning round settled on a session that held another result and win.
C12_Witness ==
    /\ last.op = "resolveBets"
    /\ last.win > 0
    /\ last.pre.lastResult \notin {NoResult, last.result}
    /\ last.pre.lastWinAmount # last.win
    /\ state.lastWinAmount = last.win

\* C14: resolveBets leaves the active bets, the selected chip and the phase
\* as they were; the spin handler empties the ledger afterwards, as it
\* enters the result phase.
C14_SettleKeepsLedger ==
    last.op = "resolveBets" =>
        /\ last.post.bets = last.pre.bets
        /\ last.post.selectedChip = last.pre.selectedChip
        /\ last.post.phase = last.pre.phase
        /\ state = [last.post EXCEPT !.phase = "result", !.bets = <<>>]

\* A ledger of two bets settled, left whole by resolveBets and emptied by
\* the handler.
C14_Witness ==
    /\ last.op = "resolveBets"
    /\ Len(last.post.bets) = 2
    /\ last.pre.phase = "spinning"
    /\ state.bets = <<>> /\ state.phase = "result"

C15_ClearBetsEffect ==
    (last.op = "clearBets" /\ last.pre.phase = "betting") =>
        /\ last.post.bets = <<>>
        /\ last.post = [last.pre EXCEPT !.bets = <<>>]
        /\ state = last.post

\* A ledger cleared in a session that holds a history and a result.
C15_Witness ==
    /\ last.op = "clearBets" /\ last.pre.phase = "betting"
    /\ Len(last.pre.bets) > 0
    /\ Len(last.pre.lastBets) > 0
    /\ last.pre.lastResult # NoResult
    /\ state.bets = <<>> /\ state.lastBets = last.pre.lastBets

\* C16: placeBet, clearBets, undoLastBet and repeatBets, called while the
\* phase is spinning or result, leave the active bets unchanged.
C16_LedgerFrozenOutsideBetting ==
    (last.op \in {"placeBet", "clearBets", "undoLastBet", "repeatBets"}
        /\ last.pre.phase # "betting") =>
        /\ last.post.bets = last.pre.bets
        /\ state.bets = last.pre.bets

\* C17: undoLastBet returns true exactly in the betting phase with a
\* non-empty ledger; it then removes the last entry of the ledger, the one
\* most recently appended, keeps the other entries and their order, and
\* changes neither the balance nor any other field.  When it returns false
\* the session is unchanged.
C17_UndoLastBet ==
    last.op = "undoLastBet" =>
        LET pre  == last.pre
            post == last.post
        IN  /\ last.ok <=> (pre.phase = "betting" /\ Len(pre.bets) > 0)
            /\ last.ok =>
                  /\ Len(post.bets) = Len(pre.bets) - 1
                  /\ \A i \in 1..Len(post.bets) : post.bets[i] = pre.bets[i]
                  /\ post.balance = pre.balance
                  /\ post = [pre EXCEPT !.bets = post.bets]
            /\ ~last.ok => post = pre
            /\ state = post

\* The second of two entries undone, the first left as it was.
C17_Witness ==
    /\ last.op = "undoLastBet" /\ last.ok
    /\ Len(last.pre.bets) = 2
    /\ last.pre.bets[1] # last.pre.bets[2]
    /\ state.bets = <<last.pre.bets[1]>>

\* The placement that made the last entry of a ledger: its category and targets.
LastKey(bets) ==
    [type |-> bets[Len(bets)].type, numbers |-> bets[Len(bets)].numbers]

SameBet(a, b) == a.type = b.type /\ a.numbers = b.numbers

\* The amount the bets of a list hold on the key of b.
RECURSIVE AmountOn(_, _)
AmountOn(bets, b) ==
    IF bets = <<>> THEN 0
    ELSE (IF SameBet(Head(bets), b) THEN Head(bets).amount ELSE 0) + AmountOn(Tail(bets), b)

\* C19: repeatBets returns false, and changes nothing, exactly when the
\* phase is not betting, or lastBets is empty, or the amounts of lastBets
\* sum to more than the balance minus the active total.  Otherwise every
\* bet of lastBets is in the ledger with its historical amount: added to
\* the entry with its key where there was one, appended as an entry of its
\* own where there was none; the entries that were there keep their place,
\* nothing else changes, and the active total is within the balance.
C19_RepeatAllOrNothing ==
    last.op = "repeatBets" =>
        LET pre   == last.pre
            post  == last.post
            fails == \/ pre.phase # "betting"
                     \/ Len(pre.lastBets) = 0
                     \/ SumAmounts(pre.lastBets) > pre.balance - SumAmounts(pre.bets)
        IN  /\ last.ok <=> ~fails
            /\ ~last.ok => post = pre
            /\ last.ok =>
                  /\ post = [pre EXCEPT !.bets = post.bets]
                  /\ Len(post.bets) >= Len(pre.bets)
                  /\ \A i \in 1..Len(pre.bets) :
                        post.bets[i] =
                            [pre.bets[i] EXCEPT !.amount = @ + AmountOn(pre.lastBets, pre.bets[i])]
                  /\ \A i \in (Len(pre.bets) + 1)..Len(post.bets) :
                        /\ AmountOn(pre.bets, post.bets[i]) = 0
                        /\ post.bets[i].amount = AmountOn(pre.lastBets, post.bets[i])
                        /\ post.bets[i].amount > 0
                  /\ \A i, j \in 1..Len(post.bets) :
                        i # j => ~SameBet(post.bets[i], post.bets[j])
                  /\ \A h \in 1..Len(pre.lastBets) :
                        \E i \in 1..Len(post.bets) : SameBet(post.bets[i], pre.lastBets[h])
                  /\ SumAmounts(post.bets) = SumAmounts(pre.bets) + SumAmounts(pre.lastBets)
                  /\ SumAmounts(post.bets) <= post.balance
            /\ state = post

\* The history repeated onto an entry with its key while another chip is
\* selected: the entry grows by the historical amount.
C19_Witness ==
    /\ last.op = "repeatBets" /\ last.ok
    /\ Len(last.pre.bets) > 0
    /\ \E h \in 1..Len(last.pre.lastBets) :
          /\ last.pre.lastBets[h].amount # last.pre.selectedChip
          /\ SameBet(last.pre.lastBets[h], last.pre.bets[1])
          /\ last.post.bets[1].amount =
                 last.pre.bets[1].amount + last.pre.lastBets[h].amount

C21_IsBankrupt ==
    last.op = "isBankrupt" =>
        /\ last.ok <=> (last.pre.balance = 0 /\ Len(last.pre.bets) = 0)
        /\ last.post = last.pre
        /\ state = last.pre

\* The whole balance wagered and lost, the bets cleared: bankrupt.
C21_Witness ==
    /\ last.op = "isBankrupt" /\ last.ok
    /\ Len(state.lastBets) > 0
    /\ SumAmounts(state.lastBets) > 0
    /\ state.lastWinAmount = 0 /\ state.lastResult # NoResult

C24_PocketColors ==
    LET Colored(c) == { p \in 1..36 : getPocketColor(p) = c } IN
    /\ \A p \in WHEEL_SEQUENCE_US : getPocketColor(p) \in {"green", "red", "black"}
    /\ \A p \in WHEEL_SEQUENCE_US : getPocketColor(p) = "green" <=> p \in {0, DOUBLE_ZERO}
    /\ Cardinality(Colored("red")) = 18
    /\ Cardinality(Colored("black")) = 18
    /\ Colored("red") \cap Colored("black") = {}
    /\ Colored("red") \cup Colored("black") = 1..36
    /\ last.op = "resolveBets" =>
           /\ getPocketColor(last.result) = "green" <=> last.result \in {0, DOUBLE_ZERO}
           /\ getPocketColor(last.result) = "red" <=>
                  isBetWin([type |-> "red", numbers |-> <<>>], last.result)
           /\ getPocketColor(last.result) = "black" <=>
                  isBetWin([type |-> "black", numbers |-> <<>>], last.result)

\* A black bet settled on the double zero: a green pocket, the bet lost.
C24_Witness ==
    /\ last.op = "resolveBets"
    /\ last.result = DOUBLE_ZERO
    /\ getPocketColor(last.result) = "green"
    /\ Len(last.pre.bets) = 1 /\ last.pre.bets[1].type = "black"
    /\ last.win = 0

\* C25: the promise spin returns resolves with exactly the target spin was
\* given: every promise is pending or holds its target, at the end of the
\* animation, at the end of the bounce and under reduced motion alike.
C25_ResolvesWithTarget ==
    /\ \A i \in 1..Len(pending) : pending[i].value \in {NoResult, pending[i].target}
    /\ last.op = "resolve" =>
           /\ pending[last.promise].value # NoResult
           /\ pending[last.promise].value = pending[last.promise].target

\* A spin on the last pocket of the sequence resolved by its animation,
\* after a spin on another pocket was preempted.
C25_Witness ==
    /\ last.op = "resolve" /\ last.promise = 2
    /\ pending[1].value = NoResult /\ pending[1].target = 32
    /\ pending[2].value = 26
    /\ wheel.angle >= TURN * MIN_WHEEL_ROTATIONS

\* The pockets whose centre is under the marker at the top (angle -PI/2)
\* when the wheel is drawn at the angle: pocket i is drawn around
\* angle + i * POCKET_ARC.
PocketsAtMarker(angle) ==
    { WHEEL_SEQUENCE[i + 1] :
        i \in { j \in 0..(POCKET_COUNT - 1) :
                  (angle + j * POCKET_ARC + QuarterTurn) % TURN = 0 } }

\* C27: when the promise of a spin resolves, the wheel is at an angle that
\* puts the pocket the spin was given, and no other, under the marker at the
\* top, and the ball is at the top; whatever the target, the random turns
\* and the angle the spin started from.
C27_LandsOnTarget ==
    last.op = "resolve" =>
        /\ PocketsAtMarker(wheel.angle) = {pending[last.promise].target}
        /\ (wheel.ballAngle + QuarterTurn) % TURN = 0
        /\ wheel.ballAngle = ballEnd

\* From the negative angle a reduced-motion spin left, an animation with a
\* bounce brought the last pocket of the sequence to the marker.
C27_Witness ==
    /\ last.op = "resolve" /\ last.promise = 2
    /\ wheel.source = "bounce"
    /\ pending[1].value # NoResult /\ pending[2].target = 26
    /\ targetPocketAngle(pending[1].target) < 0
    /\ \E r \in SpinRandoms :
          wheel.angle = wheelEnd(targetPocketAngle(pending[1].target),
                                 totalWheelSpin(r), pending[2].target)
    /\ wheel.angle < TURN * (MIN_WHEEL_ROTATIONS + EXTRA_ROTATION_RANGE)

\* C28: spin cancels the frame callback of the animation in flight before
\* it starts its own: at most one callback is scheduled at any time, it
\* belongs to the spin called last and is the one rafId names, and no frame
\* runs and no promise resolves for a spin that was preempted.
C28_OneCallbackChain ==
    /\ Cardinality(wheel.queue) <= 1
    /\ \A c \in wheel.queue : c.promise = Len(pending) /\ wheel.rafId = c.promise
    /\ last.op \in {"frame", "resolve"} => last.promise = Len(pending)

\* A frame of the second spin, the first one preempted in mid-animation.
C28_Witness ==
    /\ Len(pending) = 2
    /\ pending[1].value = NoResult
    /\ last.op = "frame" /\ last.promise = 2
    /\ wheel.angle # 0
    /\ Cardinality(wheel.queue) = 1

\* C29: every promise spin returns eventually resolves, frames being
\* delivered as long as a callback is scheduled.
C29_EveryPromiseResolves ==
    \A i \in 1..MaxSpins :
        [](Len(pending) >= i => <>(Len(pending) >= i /\ pending[i].value # NoResult))

\* While a frame callback is scheduled an outcome is committed, the same in
\* the wheel and in the suspended handler; a settlement is on a pocket.
C26_Committed ==
    /\ wheel.raf =>
           /\ pending.active
           /\ wheel.targetPocket \in 0..36
           /\ pending.result = wheel.targetPocket
    /\ last.op = "resolveBets" =>
           /\ last.result \in 0..36
           /\ last.result = wheel.targetPocket

\* A step of a round in flight, no spin started: the committed outcome stays
\* and a settlement is on it.
C26_Unchanged ==
    (pending.active /\ steps' = steps) =>
        /\ wheel'.targetPocket = wheel.targetPocket
        /\ pending'.active => pending'.result = pending.result
        /\ ~pending'.active =>
               /\ last'.op = "resolveBets"
               /\ last'.result = pending.result

\* C26: in every round the outcome is drawn before the first frame is
\* scheduled, and the outcome committed (the wheel's targetPocket and the
\* value settled later) does not change from the draw to the settlement of
\* the round.
C26_OutcomeCommittedBeforeFrames == [](C26_Committed) /\ [][C26_Unchanged]_vars

\* The second round in mid-animation, committed to another pocket than the
\* one the first round settled on.
C26_Witness ==
    /\ steps = 2
    /\ wheel.raf /\ wheel.frames >= 1
    /\ state.phase = "spinning"
    /\ pending.active /\ pending.result = wheel.targetPocket
    /\ state.lastResult # NoResult /\ state.lastResult # wheel.targetPocket

\* A spin is started only when no spin started before is still unsettled.
C30_StartsWhenSettled ==
    (steps' = steps + 1) => (~pending.active /\ ~wheel.raf /\ ~wheel.spinning)

\* C30: at most one spin is in flight at a time: no spin is started while a
\* spin started before has not been settled.
C30_OneSpinInFlight == [][C30_StartsWhenSettled]_vars

\* A step that changes the phase of the session in place (not a new game
\* replacing the session) is one of the three of the cycle, each with its
\* cause: a spin started on a non-empty ledger, the settlement of the spin
\* in flight, the dwell timer.
C31_CycleStep ==
    (state'.phase # state.phase /\ last'.op # "createGameState") =>
        \/ /\ state.phase = "betting" /\ state'.phase = "spinning"
           /\ steps' = steps + 1
           /\ Len(state.bets) # 0
        \/ /\ state.phase = "spinning" /\ state'.phase = "result"
           /\ last'.op = "resolveBets"
           /\ pending.active /\ ~pending'.active
        \/ /\ state.phase = "betting" /\ state'.phase = "result"
           /\ steps' = steps + 1
           /\ Len(state.bets) # 0
           /\ last'.op = "resolveBets" /\ last'.pre.phase = "spinning"
           /\ ~wheel'.spinning
        \/ /\ state.phase = "result" /\ state'.phase = "betting"
           /\ timers' = timers - 1

\* C31: the phase of a session changes only along betting -> spinning ->
\* result -> betting, each change with its cause (a spin under reduced
\* motion passes through spinning within the one handler run).
C31_PhaseCycle == [][C31_CycleStep]_vars

\* From a bankrupt session, short of a new game: no spin starts, no bet is
\* accepted, the ledger stays empty and the balance zero.
C32_BankruptStep ==
    (isBankrupt(state) /\ last'.op # "createGameState") =>
        /\ steps' = steps
        /\ last'.op \in {"placeBet", "repeatBets"} => ~last'.ok
        /\ state'.bets = <<>>
        /\ state'.balance = 0
        /\ isBankrupt(state')
        /\ ui'.spinDisabled

\* C32: once a round has left the session bankrupt, no spin starts and no
\* bet is accepted in that session until a new game replaces it, whatever
\* timer of an earlier session still fires.
C32_BankruptStops == [][C32_BankruptStep]_vars

\* The bankrupt session back in the betting phase, put there by the dwell
\* timer of the session before it, and a cell of the board clicked.
C32_Witness ==
    /\ isBankrupt(state)
    /\ state.phase = "betting"
    /\ state.lastResult # NoResult
    /\ last.op = "placeBet" /\ ~last.ok
    /\ ~ui.gameOverHidden

\* Right after a new game the session is the default one and nothing is
\* persisted.
C33_Fresh ==
    (last.op = "createGameState" /\ steps > 0) =>
        /\ state = createGameState(DefaultBalance)
        /\ state.balance = 1000 /\ state.bets = <<>> /\ state.phase = "betting"
        /\ saved = NoSaved

\* The first step after a new game: nothing has been done in the new
\* session yet, its ledger is empty and no spin of its own can be in
\* flight, so the session and the persisted balance change only by a bet
\* or a chip selection (or another new game), and no round is settled.
C33_FirstStep ==
    (/\ last.op = "createGameState" /\ last'.op # "createGameState"
     /\ (state' # state \/ saved' # saved)) =>
        /\ last'.op \in {"placeBet", "none"}
        /\ saved' = saved
        /\ state'.phase = "betting"

\* C33: a new game replaces the session by a fresh default one and clears
\* the persisted balance, and afterwards the session and the persisted
\* balance are changed only by actions of the new session, never by a spin
\* or timer started in the discarded one.
C33_NewGameOwnsSession == [](C33_Fresh) /\ [][C33_FirstStep]_vars

\* The phase reading: a session in the spinning phase comes to the result
\* phase, and a session that is not bankrupt leaves the result phase for
\* betting.
C34_PhaseProgress ==
    /\ (state.phase = "spinning") ~> (state.phase = "result")
    /\ (state.phase = "result" /\ ~isBankrupt(state)) ~> (state.phase = "betting")

\* C34: every spin started is settled in the end, the k-th spin before any
\* later one starts, and the session then returns from the result phase to
\* betting unless it is bankrupt; frames and timers being delivered.
C34_EverySpinSettles ==
    /\ \A k \in 1..MaxRounds :
          []((steps = k /\ pending.active) =>
                <>(steps = k /\ ~pending.active /\ last.op = "resolveBets"
                             /\ state.phase = "result"))
    /\ (state.phase = "result" /\ ~isBankrupt(state)) ~> (state.phase = "betting")

\* The settlement of the spin in flight: the outcome is the one drawn, and
\* every bet of the ledger resolveBets settles was on the table, with the
\* same amount, when it was drawn.
C35_SettlementStep ==
    (pending.active /\ ~pending'.active /\ steps' = steps) =>
        /\ last'.op = "resolveBets"
        /\ last'.result = pending.result
        /\ \A i \in 1..Len(last'.pre.bets) :
              \E j \in 1..Len(pending.betsSnapshot) :
                 pending.betsSnapshot[j] = last'.pre.bets[i]

\* C35: betting is closed before the draw: every bet settled against an
\* outcome was on the table, with the same amount, when the outcome was
\* drawn, under any interleaving of spin, new game, placements and timers.
C35_BettingClosedBeforeDraw == [][C35_SettlementStep]_vars

\* A dwell timer fires: no spin is in flight and the session is not in the
\* spinning phase, which the timer would end.
C36_DwellStep ==
    (timers' = timers - 1) =>
        /\ ~pending.active
        /\ state.phase # "spinning"
        /\ ~(pending'.active /\ state'.phase = "betting")

\* C36: the dwell timer of a round never sets the phase to betting while a
\* spin is in flight, whether the spin was started after a new game or
\* otherwise.
C36_DwellNeverEndsSpin == [][C36_DwellStep]_vars

\* A round is recorded: the entry put in front of the history and the
\* totals added to the statistics account for the change of the balance
\* since the spin started (balanceBefore, main.ts 129).
C37_RecordingStep ==
    (records'.stats.totalRounds = records.stats.totalRounds + 1) =>
        LET balanceBefore == IF pending.active /\ steps' = steps
                             THEN pending.balanceBefore ELSE state.balance
            entry == records'.entries[1]
        IN  /\ last'.op = "resolveBets"
            /\ entry.result = last'.result
            /\ entry.winAmount = last'.win
            /\ state'.balance - balanceBefore = entry.winAmount - entry.totalBet
            /\ state'.balance - balanceBefore =
                  (records'.stats.totalWon - records.stats.totalWon)
                  - (records'.stats.totalWagered - records.stats.totalWagered)

\* C37: for every completed round, what goes to the history and the
\* statistics agrees with the settlement: balance after minus balance at
\* spin start = recorded win - total of the bet snapshot.
C37_RecordsAgreeWithSettlement == [][C37_RecordingStep]_vars

\* The total of a ledger of at most two bets, written out.
TotalOfUpToTwo(bets) ==
    IF Len(bets) = 0 THEN 0
    ELSE IF Len(bets) = 1 THEN bets[1].amount
    ELSE bets[1].amount + bets[2].amount

\* C38: from an empty history, after any addEntry and clear, the history
\* holds at most 20 entries, newest first; the entry added is in front with
\* the result and win passed in and the sum of the amounts of the bets
\* passed in, the entries before it follow in their order, and of 20 the
\* oldest is dropped.
C38_HistoryCapped ==
    LET entries == records.entries IN
    /\ Len(entries) <= 20
    /\ \A i \in 1..(Len(entries) - 1) :
          entries[i].result = (entries[i + 1].result + 1) % 37
    /\ last.op = "clear" => entries = <<>>
    /\ last.op = "addEntry" =>
          /\ entries[1] = [result    |-> last.round.result,
                           totalBet  |-> TotalOfUpToTwo(last.round.bets),
                           winAmount |-> last.round.winAmount]
          /\ Len(entries) = IF Len(last.pre) < 20 THEN Len(last.pre) + 1 ELSE 20
          /\ \A i \in 2..Len(entries) : entries[i] = last.pre[i - 1]

\* The 21st entry added to a full history, with bets of 5 and 10: the
\* oldest entry is gone.
C38_Witness ==
    /\ last.op = "addEntry"
    /\ Len(last.pre) = 20 /\ Len(records.entries) = 20
    /\ records.entries[1].totalBet = 15
    /\ records.entries[20] = last.pre[19]
    /\ \A i \in 1..20 : records.entries[i] # last.pre[20]

\* The number of rounds at the end of the sequence that went the way of
\* the last one (0 for no round).
CurrentRun(wins) ==
    IF wins = <<>> THEN 0
    ELSE LET n == Len(wins)
             same == { k \in 1..n : \A i \in (n - k + 1)..n : wins[i] = wins[n] }
         IN  CHOOSE k \in same : \A j \in same : j <= k

\* C39: from the default statistics, after any recordRound and clear:
\* wins + losses = totalRounds; currentStreak is positive exactly when the
\* last round recorded had a positive totalWin and negative exactly when it
\* had none, its magnitude the length of the current run of such rounds;
\* the longest streaks are at least the current one.
C39_StatsConsistent ==
    LET stats == records.stats
        wins  == last.wins
    IN  /\ stats.wins + stats.losses = stats.totalRounds
        /\ stats.totalRounds = Len(wins)
        /\ stats.currentStreak > 0 <=> (wins # <<>> /\ wins[Len(wins)])
        /\ stats.currentStreak < 0 <=> (wins # <<>> /\ ~wins[Len(wins)])
        /\ Abs(stats.currentStreak) = CurrentRun(wins)
        /\ stats.longestWinStreak >= stats.currentStreak
        /\ stats.longestLoseStreak >= -stats.currentStreak

\* A win recorded after two losses that followed a win.
C39_Witness ==
    /\ last.op = "recordRound"
    /\ last.wins = <<TRUE, FALSE, FALSE, TRUE>>
    /\ records.stats.currentStreak = 1
    /\ records.stats.longestLoseStreak = 2
    /\ records.stats.wins = 2 /\ records.stats.losses = 2

\* The last frame of the primary deceleration of the closure c is drawn
\* (its animate callback runs and schedules itself no more): the ball has
\* travelled from c.ballStart against the wheel, which turns forward, by
\* its 8 to 12 turns, up to the part of a turn that brings it to the marker.
C40_LastFrame ==
    \A c \in wheel.queue :
        (/\ c.fn = "animate" /\ steps' = steps
         /\ wheel' # wheel
         /\ \A d \in wheel'.queue : d.fn # "animate") =>
            LET travel == wheel'.ballAngle - c.ballStart IN
            /\ wheel'.angle > c.wheelStart
            /\ travel <= -(MIN_BALL_SPINS * TURN) + TURN
            /\ travel > -((MIN_BALL_SPINS + EXTRA_BALL_SPIN_RANGE) * TURN) - TURN
            /\ (wheel'.ballAngle + QuarterTurn) % TURN = 0

\* C40: in a spin without reduced motion the ball turns against the wheel
\* by its own random number of full turns, at least 8 and fewer than 12,
\* and ends at the marker.
C40_BallCounterRotates == [][C40_LastFrame]_vars

====
